---- MODULE Spec2Model ----
(***************************************************************************)
(* Model of the Flask API of src/app.py: the per-user CRUD handlers of the *)
(* collections "recordatorios" (reminders) and "secciones" (sections) over *)
(* a Firestore document store, gated by require_firebase_user.             *)
(*                                                                         *)
(* JSON values are records [t, s, n]: t is the JSON type, s the characters *)
(* of a string (or the items of a list), n the number of an int, the truth *)
(* value of a bool (1/0), the number of entries of a dict, or the counter  *)
(* of a store-generated document id.  An int beyond TLC's 32-bit integers  *)
(* (the default section colour) holds its decimal digits in s.  A Python   *)
(* str is the sequence of its characters.  A JSON object (request body,    *)
(* stored document) is a function from its keys to JSON values.            *)
(***************************************************************************)
EXTENDS Integers, Sequences, FiniteSets, TLC

VARIABLES db, nextId, origin, resp, th

vars == <<db, nextId, origin, resp, th>>

\* Number of documents the store ever generates an id for.
MaxDocs == 2

Ids == 1..MaxDocs

Collections == {"recordatorios", "secciones"}

------------------------------------------------------------------------------
\* JSON values and the Python operations the handlers apply to them

JNull == [t |-> "null", s |-> <<>>, n |-> 0]
JStr(chars) == [t |-> "str", s |-> chars, n |-> 0]
JInt(i) == [t |-> "int", s |-> <<>>, n |-> i]
JBigInt(digits) == [t |-> "int", s |-> digits, n |-> 0]
JBool(b) == [t |-> "bool", s |-> <<>>, n |-> IF b THEN 1 ELSE 0]
JList(items) == [t |-> "list", s |-> items, n |-> 0]
JDict(size) == [t |-> "dict", s |-> <<>>, n |-> size]

\* The id Firestore generates for the i-th added document, as the str d.id.
DocId(i) == [t |-> "str", s |-> <<"doc">>, n |-> i]

\* Python truthiness of a JSON value (`x or y`, `if x`, bool(x)).
Truthy(v) ==
  CASE v.t = "null" -> FALSE
    [] v.t = "bool" -> v.n = 1
    [] v.t = "int" -> v.n # 0 \/ v.s # <<>>
    [] v.t = "str" -> v.s # <<>>
    [] v.t = "list" -> v.s # <<>>
    [] OTHER -> v.n # 0

EmptyBody == [k \in {} |-> JNull]

\* dict.get(key) and dict.get(key, default)
Get(body, key) == IF key \in DOMAIN body THEN body[key] ELSE JNull
GetOr(body, key, default) == IF key \in DOMAIN body THEN body[key] ELSE default

\* `x or ""`
OrEmpty(v) == IF Truthy(v) THEN v ELSE JStr(<<>>)

RECURSIVE lstrip(_)
lstrip(chars) ==
  IF chars # <<>> /\ Head(chars) = " " THEN lstrip(Tail(chars)) ELSE chars

RECURSIVE rstrip(_)
rstrip(chars) ==
  IF chars # <<>> /\ chars[Len(chars)] = " "
  THEN rstrip(SubSeq(chars, 1, Len(chars) - 1))
  ELSE chars

\* str.strip() on the characters of a str
strip(chars) == rstrip(lstrip(chars))

lower_char(c) ==
  CASE c = "A" -> "a"
    [] c = "B" -> "b"
    [] c = "W" -> "w"
    [] OTHER -> c

\* str.lower()
lower(chars) == [i \in DOMAIN chars |-> lower_char(chars[i])]

\* Code point of a character of the model's alphabet.
ord(c) ==
  CASE c = " " -> 32
    [] c = "A" -> 65
    [] c = "B" -> 66
    [] c = "W" -> 87
    [] c = "a" -> 97
    [] c = "b" -> 98
    [] c = "w" -> 119
    [] c = "x" -> 120
    [] OTHER -> 122

\* Python's str comparison a <= b: lexicographic by code point.
RECURSIVE str_le(_, _)
str_le(a, b) ==
  IF a = <<>> THEN TRUE
  ELSE IF b = <<>> THEN FALSE
  ELSE IF ord(Head(a)) < ord(Head(b)) THEN TRUE
  ELSE IF ord(Head(a)) > ord(Head(b)) THEN FALSE
  ELSE str_le(Tail(a), Tail(b))

------------------------------------------------------------------------------
\* The Identity Verifier and the Authorization header

\* A header is the sequence of its pieces: the scheme prefix "Bearer ", a
\* blank " ", or the characters of a token taken as one piece.
NoHeader == <<>>

Uid1 == <<"u", "1">>
Uid2 == <<"u", "2">>
OtherUid == <<"o", "t", "h", "e", "r">>

\* auth.verify_id_token: the decoded token's uid, or <<>> when it raises.
verify_id_token(token) ==
  CASE token = <<"tok1">> -> Uid1
    [] token = <<"tok2">> -> Uid2
    [] OTHER -> <<>>

\* header.split("Bearer ")[1]: the pieces after the first "Bearer " up to the
\* next one.
RECURSIVE upto_bearer(_)
upto_bearer(pieces) ==
  IF pieces = <<>> \/ Head(pieces) = "Bearer " THEN <<>>
  ELSE <<Head(pieces)>> \o upto_bearer(Tail(pieces))

\* The verifier's exception swallowed: the request goes on with no uid.
require_firebase_user_unchecked(header) ==
  IF ~(header # <<>> /\ Head(header) = "Bearer ")
  THEN [uid |-> <<>>, status |-> 401, error |-> "Falta Authorization Bearer token"]
  ELSE [uid |-> verify_id_token(strip(upto_bearer(Tail(header)))),
        status |-> 0, error |-> ""]

\* [user, err]: the verified uid and status 0, or no uid and the 401 with its
\* message.
require_firebase_user(header) ==
  IF ~(header # <<>> /\ Head(header) = "Bearer ")
  THEN [uid |-> <<>>, status |-> 401, error |-> "Falta Authorization Bearer token"]
  ELSE LET token == strip(upto_bearer(Tail(header)))
           decoded == verify_id_token(token)
       IN IF decoded # <<>>
          THEN [uid |-> decoded, status |-> 0, error |-> ""]
          ELSE [uid |-> <<>>, status |-> 401, error |-> "Token invalido o expirado"]

------------------------------------------------------------------------------
\* The Firestore calls the handlers make, on a store st: a function from the
\* collection name to the function from document id to document.

\* ref.get().exists
exists(st, col, id) == id \in DOMAIN st[col]

\* collection(col).add(doc) with the generated id
add(st, col, id, doc) ==
  [st EXCEPT ![col] = [i \in DOMAIN st[col] \cup {id} |->
                         IF i = id THEN doc ELSE st[col][i]]]

\* what ref.update(patch) leaves in the document
merge(doc, patch) ==
  [k \in DOMAIN doc \cup DOMAIN patch |->
     IF k \in DOMAIN patch THEN patch[k] ELSE doc[k]]

\* ref.update(patch) on an existing document with a patch that is not empty
update(st, col, id, patch) ==
  [st EXCEPT ![col][id] = merge(st[col][id], patch)]

\* ref.delete(): no error when the document is already gone
delete(st, col, id) ==
  [st EXCEPT ![col] = [i \in DOMAIN st[col] \ {id} |-> st[col][i]]]

\* The query without its owner filter.
where_ids_any_owner(st, col, uid, narrowed, tipo) ==
  {i \in DOMAIN st[col] : narrowed => st[col][i]["tipo"] = tipo}

\* The ids of where("id_usuario", "==", uid), narrowed by where("tipo", "==",
\* tipo) when the handler adds it.
where_ids(st, col, uid, narrowed, tipo) ==
  {i \in DOMAIN st[col] :
     /\ st[col][i]["id_usuario"] = JStr(uid)
     /\ narrowed => st[col][i]["tipo"] = tipo}

\* stream(): the matching documents in the store's order, by document id.
RECURSIVE stream(_)
stream(ids) ==
  IF ids = {} THEN <<>>
  ELSE LET least == CHOOSE i \in ids : \A j \in ids : i <= j
       IN <<least>> \o stream(ids \ {least})

\* data = d.to_dict(); data["id"] = d.id
with_id(doc, id) ==
  [k \in DOMAIN doc \cup {"id"} |-> IF k = "id" THEN DocId(id) ELSE doc[k]]

\* The response of a handler: HTTP status, error message, the documents of
\* the JSON body, the store calls made, and the store it leaves.
Response(status, error, out, calls, st) ==
  [status |-> status, error |-> error, out |-> out, calls |-> calls, db |-> st]

\* An exception no handler catches: Flask answers 500.
ServerError(calls, st) == Response(500, "Internal Server Error", <<>>, calls, st)

------------------------------------------------------------------------------
\* Reminders: the collection "recordatorios"

ReminderKeys ==
  {"id_usuario", "nombre", "descripcion", "fecha", "hora", "estado",
   "prioridad", "notificacion", "repeticion", "dias_repeticion",
   "fechas_completadas", "estados_fechas", "tipo", "color", "fecha_creacion",
   "archivos"}

\* The whitelist with the owner key in it.
allowed_with_owner ==
  {"id_usuario", "nombre", "descripcion", "fecha", "hora", "estado",
   "prioridad", "notificacion", "repeticion", "tipo", "color",
   "fecha_creacion", "dias_repeticion", "fechas_completadas",
   "estados_fechas", "archivos"}

\* The keys update_reminder lets a patch change.
allowed ==
  {"nombre", "descripcion", "fecha", "hora", "estado", "prioridad",
   "notificacion", "repeticion", "tipo", "color", "fecha_creacion",
   "dias_repeticion", "fechas_completadas", "estados_fechas", "archivos"}

\* The ownership check left out.
owned_by_anyone(doc, uid) == TRUE

\* data.get("id_usuario") != uid is false
owned_by(doc, uid) == Get(doc, "id_usuario") = JStr(uid)

\* The document create_reminder builds from the trimmed required fields and
\* the body.
reminder_doc(uid, nombre, fecha, hora, body) ==
  [k \in ReminderKeys |->
     CASE k = "id_usuario" -> JStr(uid)
       [] k = "nombre" -> JStr(nombre)
       [] k = "descripcion" -> Get(body, "descripcion")
       [] k = "fecha" -> JStr(fecha)
       [] k = "hora" -> JStr(hora)
       [] k = "estado" -> JBool(Truthy(GetOr(body, "estado", JBool(FALSE))))
       [] k = "prioridad" -> GetOr(body, "prioridad", JStr(<<"m", "e", "d", "i", "a">>))
       [] k = "notificacion" -> JBool(Truthy(GetOr(body, "notificacion", JBool(TRUE))))
       [] k = "repeticion" -> GetOr(body, "repeticion", JStr(<<"n", "i", "n", "g", "u", "n", "a">>))
       [] k = "dias_repeticion" -> GetOr(body, "dias_repeticion", JList(<<>>))
       [] k = "fechas_completadas" -> GetOr(body, "fechas_completadas", JList(<<>>))
       [] k = "estados_fechas" -> GetOr(body, "estados_fechas", JDict(0))
       [] k = "tipo" -> GetOr(body, "tipo", JStr(<<"p", "e", "r", "s", "o", "n", "a", "l">>))
       [] k = "color" -> GetOr(body, "color", JStr(<<"a", "z", "u", "l">>))
       [] k = "fecha_creacion" -> Get(body, "fecha_creacion")
       [] OTHER -> GetOr(body, "archivos", JList(<<>>))]

\* GET /reminders?tipo=...; tipo is JNull when the query has no tipo.
list_reminders(header, tipo, st) ==
  LET user == require_firebase_user(header)
      ids == stream(where_ids(st, "recordatorios", user.uid, Truthy(tipo), tipo))
  IN IF user.status # 0
     THEN Response(user.status, user.error, <<>>, <<>>, st)
     ELSE Response(200, "",
                   [i \in DOMAIN ids |-> with_id(st["recordatorios"][ids[i]], ids[i])],
                   <<"stream">>, st)

\* POST /reminders; id is the id the store generates if the document is added.
create_reminder(header, body, st, id) ==
  LET user == require_firebase_user(header)
      nombre == OrEmpty(Get(body, "nombre"))
      fecha == OrEmpty(Get(body, "fecha"))
      hora == OrEmpty(Get(body, "hora"))
      doc == reminder_doc(user.uid, strip(nombre.s), strip(fecha.s), strip(hora.s), body)
  IN IF user.status # 0
     THEN Response(user.status, user.error, <<>>, <<>>, st)
     ELSE IF nombre.t # "str" \/ fecha.t # "str" \/ hora.t # "str"
     THEN ServerError(<<>>, st)    \* .strip() of a value that is no str
     ELSE IF strip(nombre.s) = <<>> \/ strip(fecha.s) = <<>> \/ strip(hora.s) = <<>>
     THEN Response(400, "nombre, fecha, hora son obligatorios", <<>>, <<>>, st)
     ELSE Response(201, "", <<with_id(doc, id)>>, <<"add">>,
                   add(st, "recordatorios", id, doc))

\* patch = {k: body[k] for k in body.keys() if k in allowed}
reminder_patch(body) == [k \in DOMAIN body \cap allowed |-> body[k]]

\* PUT /reminders/<rid>
update_reminder(header, rid, body, st) ==
  LET user == require_firebase_user(header)
      patch == reminder_patch(body)
      after == update(st, "recordatorios", rid, patch)
  IN IF user.status # 0
     THEN Response(user.status, user.error, <<>>, <<>>, st)
     ELSE IF ~exists(st, "recordatorios", rid)
     THEN Response(404, "No encontrado", <<>>, <<"get">>, st)
     ELSE IF ~owned_by(st["recordatorios"][rid], user.uid)
     THEN Response(403, "No autorizado", <<>>, <<"get">>, st)
     ELSE IF DOMAIN patch = {}
     THEN ServerError(<<"get", "update">>, st)    \* update() of an empty dict raises
     ELSE Response(200, "", <<with_id(after["recordatorios"][rid], rid)>>,
                   <<"get", "update", "get">>, after)

\* DELETE /reminders/<rid>
delete_reminder(header, rid, st) ==
  LET user == require_firebase_user(header)
  IN IF user.status # 0
     THEN Response(user.status, user.error, <<>>, <<>>, st)
     ELSE IF ~exists(st, "recordatorios", rid)
     THEN Response(404, "No encontrado", <<>>, <<"get">>, st)
     ELSE IF ~owned_by(st["recordatorios"][rid], user.uid)
     THEN Response(403, "No autorizado", <<>>, <<"get">>, st)
     ELSE Response(200, "", <<>>, <<"get", "delete">>,
                   delete(st, "recordatorios", rid))

------------------------------------------------------------------------------
\* Sections: the collection "secciones"

SectionKeys == {"id_usuario", "nombre", "color", "fecha_creacion"}

\* 4280391411, the colour a section gets when the body gives none
DefaultColor == JBigInt(<<"4280391411">>)

\* The colour stored as the body gives it, with no fallback.
section_doc_no_fallback(uid, nombre, body) ==
  [k \in SectionKeys |->
     CASE k = "id_usuario" -> JStr(uid)
       [] k = "nombre" -> JStr(nombre)
       [] k = "color" -> Get(body, "color")
       [] OTHER -> Get(body, "fecha_creacion")]

\* The document create_section builds.
section_doc(uid, nombre, body) ==
  [k \in SectionKeys |->
     CASE k = "id_usuario" -> JStr(uid)
       [] k = "nombre" -> JStr(nombre)
       [] k = "color" -> IF Truthy(Get(body, "color")) THEN Get(body, "color")
                         ELSE DefaultColor
       [] OTHER -> Get(body, "fecha_creacion")]

\* x.get('nombre', '')
name_of(doc) == GetOr(doc, "nombre", JStr(<<>>))

\* The sort key x.get('nombre', '').lower() of a document whose name is a str
sort_key(doc) == lower(name_of(doc).s)

\* One step of the stable sort: x goes after the documents whose key is not
\* greater than its own.
RECURSIVE insert_sorted(_, _)
insert_sorted(sorted, x) ==
  IF sorted = <<>> THEN <<x>>
  ELSE IF str_le(sort_key(Head(sorted)), sort_key(x))
  THEN <<Head(sorted)>> \o insert_sorted(Tail(sorted), x)
  ELSE <<x>> \o sorted

\* out.sort(key=lambda x: x.get('nombre', '').lower())
RECURSIVE sort_by_name(_)
sort_by_name(out) ==
  IF out = <<>> THEN <<>>
  ELSE insert_sorted(sort_by_name(SubSeq(out, 1, Len(out) - 1)), out[Len(out)])

\* GET /sections
list_sections(header, st) ==
  LET user == require_firebase_user(header)
      ids == stream(where_ids(st, "secciones", user.uid, FALSE, JNull))
      out == [i \in DOMAIN ids |-> with_id(st["secciones"][ids[i]], ids[i])]
  IN IF user.status # 0
     THEN Response(user.status, user.error, <<>>, <<>>, st)
     ELSE IF \E i \in DOMAIN out : name_of(out[i]).t # "str"
     THEN ServerError(<<"stream">>, st)    \* .lower() of a value that is no str
     ELSE Response(200, "", sort_by_name(out), <<"stream">>, st)

\* POST /sections
create_section(header, body, st, id) ==
  LET user == require_firebase_user(header)
      nombre == OrEmpty(Get(body, "nombre"))
      doc == section_doc(user.uid, strip(nombre.s), body)
  IN IF user.status # 0
     THEN Response(user.status, user.error, <<>>, <<>>, st)
     ELSE IF nombre.t # "str"
     THEN ServerError(<<>>, st)    \* .strip() of a value that is no str
     ELSE IF strip(nombre.s) = <<>>
     THEN Response(400, "Falta nombre", <<>>, <<>>, st)
     ELSE Response(201, "", <<with_id(doc, id)>>, <<"add">>,
                   add(st, "secciones", id, doc))

\* The patch update_section builds from the keys nombre and color of the body
section_patch(body) == [k \in DOMAIN body \cap {"nombre", "color"} |-> body[k]]

\* PUT /sections/<sid>
update_section(header, sid, body, st) ==
  LET user == require_firebase_user(header)
      patch == section_patch(body)
  IN IF user.status # 0
     THEN Response(user.status, user.error, <<>>, <<>>, st)
     ELSE IF ~exists(st, "secciones", sid)
     THEN Response(404, "No encontrado", <<>>, <<"get">>, st)
     ELSE IF ~owned_by(st["secciones"][sid], user.uid)
     THEN Response(403, "Ajeno", <<>>, <<"get">>, st)
     ELSE IF DOMAIN patch # {}
     THEN Response(200, "", <<>>, <<"get", "update">>,
                   update(st, "secciones", sid, patch))
     ELSE Response(200, "", <<>>, <<"get">>, st)

\* Ownership tested together with existence: a missing document is "Ajeno".
delete_section_owner_first(header, sid, st) ==
  LET user == require_firebase_user(header)
  IN IF user.status # 0
     THEN Response(user.status, user.error, <<>>, <<>>, st)
     ELSE IF ~exists(st, "secciones", sid) \/ ~owned_by(st["secciones"][sid], user.uid)
     THEN Response(403, "Ajeno", <<>>, <<"get">>, st)
     ELSE Response(200, "", <<>>, <<"get", "delete">>,
                   delete(st, "secciones", sid))

\* DELETE /sections/<sid>
delete_section(header, sid, st) ==
  LET user == require_firebase_user(header)
  IN IF user.status # 0
     THEN Response(user.status, user.error, <<>>, <<>>, st)
     ELSE IF ~exists(st, "secciones", sid)
     THEN Response(404, "No encontrado", <<>>, <<"get">>, st)
     ELSE IF ~owned_by(st["secciones"][sid], user.uid)
     THEN Response(403, "Ajeno", <<>>, <<"get">>, st)
     ELSE Response(200, "", <<>>, <<"get", "delete">>,
                   delete(st, "secciones", sid))

------------------------------------------------------------------------------
\* The requests the clients send

Trabajo == JStr(<<"t", "r", "a", "b", "a", "j", "o">>)
Personal == JStr(<<"p", "e", "r", "s", "o", "n", "a", "l">>)
Fecha == JStr(<<"2", "0", "2", "3", "-", "1", "2", "-", "3", "1">>)
Hora == JStr(<<"1", "5", ":", "3", "0">>)

\* The tokens of the two users (the second with blanks around it).
UserHeaders ==
  {<<"Bearer ", "tok1">>,
   <<"Bearer ", " ", "tok2", " ">>}

\* No header, another scheme, and a token the verifier rejects.
BadHeaders ==
  {NoHeader,
   <<"Basic ", "tok1">>,
   <<"Bearer ", "expired">>}

Headers == UserHeaders \cup BadHeaders

\* The values a request with this header is sent with: every one of them
\* from a user, one of them otherwise.
SentWith(header, values) ==
  IF header \in UserHeaders THEN values ELSE {CHOOSE v \in values : TRUE}

\* ?tipo= absent, empty, and a category
Tipos == {JNull, JStr(<<>>), Trabajo}

\* Bodies create_reminder accepts.
ReminderBodies ==
  {("nombre" :> JStr(<<" ", "a", " ">>)) @@ ("fecha" :> Fecha) @@ ("hora" :> Hora),
   ("nombre" :> JStr(<<"B">>)) @@ ("fecha" :> Fecha) @@ ("hora" :> Hora)
     @@ ("tipo" :> Trabajo) @@ ("estado" :> JInt(1)) @@ ("prioridad" :> JNull)
     @@ ("id_usuario" :> JStr(OtherUid))}

\* Bodies with a required field missing, null or blank; in the last one
\* another required field is a number.
BadReminderBodies ==
  {EmptyBody,
   ("nombre" :> JNull) @@ ("fecha" :> Fecha) @@ ("hora" :> Hora),
   ("nombre" :> JStr(<<"a">>)) @@ ("fecha" :> JStr(<<" ", " ">>)) @@ ("hora" :> Hora),
   ("fecha" :> JInt(20231231)) @@ ("hora" :> Hora)}

ReminderPatches ==
  {("id_usuario" :> JStr(OtherUid)) @@ ("nombre" :> JStr(<<"x">>)),
   ("id_usuario" :> JStr(OtherUid)) @@ ("id" :> JStr(<<"x">>))}

SectionBodies ==
  {("nombre" :> JStr(<<" ", "a", " ">>)),
   ("nombre" :> JStr(<<"B">>)) @@ ("color" :> JInt(0))}

BadSectionBodies ==
  {EmptyBody,
   ("nombre" :> JNull) @@ ("color" :> JInt(999)),
   ("nombre" :> JStr(<<" ">>))}

SectionPatches ==
  {("id_usuario" :> JStr(OtherUid)) @@ ("nombre" :> JNull),
   ("id_usuario" :> JStr(OtherUid))}

------------------------------------------------------------------------------
\* The state machine: requests handled one at a time.  resp is the request
\* last handled with its response and the store before it (pre), until the
\* response is sent.  origin[id] is the user and the body that created the
\* stored document id, while no update has written to it.

Idle ==
  [op |-> "idle", header |-> NoHeader, rid |-> 0, tipo |-> JNull,
   body |-> EmptyBody, status |-> 0, error |-> "", out |-> <<>>,
   calls |-> <<>>, pre |-> db]

IdleThread ==
  [pc |-> "idle", op |-> "idle", uid |-> <<>>, rid |-> 0, body |-> EmptyBody,
   status |-> 0, out |-> <<>>]

Threads == {"t1", "t2"}

Init ==
  /\ db = [c \in Collections |-> [i \in {} |-> EmptyBody]]
  /\ nextId = 1
  /\ origin = [i \in {} |-> [uid |-> <<>>, body |-> EmptyBody, fresh |-> FALSE]]
  /\ resp = [Idle EXCEPT !.pre = [c \in Collections |-> [i \in {} |-> EmptyBody]]]
  /\ th = [t \in Threads |-> IdleThread]

\* The handler's response r to the request becomes the state.
Handle(op, header, rid, tipo, body, r) ==
  /\ resp.op = "idle"
  /\ resp' = [op |-> op, header |-> header, rid |-> rid, tipo |-> tipo,
              body |-> body, status |-> r.status, error |-> r.error,
              out |-> r.out, calls |-> r.calls, pre |-> db]
  /\ db' = r.db
  /\ th' = th

Created(r, header, body) ==
  IF r.status = 201
  THEN /\ nextId <= MaxDocs
       /\ nextId' = nextId + 1
       /\ origin' = [i \in DOMAIN origin \cup {nextId} |->
                       IF i = nextId
                       THEN [uid |-> require_firebase_user(header).uid,
                             body |-> body, fresh |-> TRUE]
                       ELSE origin[i]]
  ELSE UNCHANGED <<nextId, origin>>

Updated(r, rid) ==
  /\ nextId' = nextId
  /\ origin' = IF r.status = 200 /\ r.db # db
               THEN [origin EXCEPT ![rid] = [@ EXCEPT !.body = EmptyBody, !.fresh = FALSE]]
               ELSE origin

Deleted(r, rid) ==
  /\ nextId' = nextId
  /\ origin' = IF r.status = 200
               THEN [i \in DOMAIN origin \ {rid} |-> origin[i]]
               ELSE origin

ListReminders ==
  \E header \in Headers :
  \E tipo \in SentWith(header, Tipos) :
    /\ Handle("list_reminders", header, 0, tipo, EmptyBody,
              list_reminders(header, tipo, db))
    /\ UNCHANGED <<nextId, origin>>

CreateReminder ==
  \E header \in Headers :
  \E body \in SentWith(header, ReminderBodies \cup BadReminderBodies) :
    LET r == create_reminder(header, body, db, nextId)
    IN /\ Handle("create_reminder", header, 0, JNull, body, r)
       /\ Created(r, header, body)

UpdateReminder ==
  \E header \in Headers, rid \in Ids :
  \E body \in SentWith(header, ReminderPatches) :
    LET r == update_reminder(header, rid, body, db)
    IN /\ Handle("update_reminder", header, rid, JNull, body, r)
       /\ Updated(r, rid)

DeleteReminder ==
  \E header \in Headers, rid \in Ids :
    LET r == delete_reminder(header, rid, db)
    IN /\ Handle("delete_reminder", header, rid, JNull, EmptyBody, r)
       /\ Deleted(r, rid)

ListSections ==
  \E header \in Headers :
    /\ Handle("list_sections", header, 0, JNull, EmptyBody,
              list_sections(header, db))
    /\ UNCHANGED <<nextId, origin>>

CreateSection ==
  \E header \in Headers :
  \E body \in SentWith(header, SectionBodies \cup BadSectionBodies) :
    LET r == create_section(header, body, db, nextId)
    IN /\ Handle("create_section", header, 0, JNull, body, r)
       /\ Created(r, header, body)

UpdateSection ==
  \E header \in Headers, sid \in Ids :
  \E body \in SentWith(header, SectionPatches) :
    LET r == update_section(header, sid, body, db)
    IN /\ Handle("update_section", header, sid, JNull, body, r)
       /\ Updated(r, sid)

DeleteSection ==
  \E header \in Headers, sid \in Ids :
    LET r == delete_section(header, sid, db)
    IN /\ Handle("delete_section", header, sid, JNull, EmptyBody, r)
       /\ Deleted(r, sid)

\* The response is sent; the next request can be handled.
Reply ==
  /\ resp.op # "idle"
  /\ resp' = [Idle EXCEPT !.pre = db]
  /\ UNCHANGED <<db, nextId, origin, th>>

Next ==
  \/ ListReminders
  \/ CreateReminder
  \/ UpdateReminder
  \/ DeleteReminder
  \/ ListSections
  \/ CreateSection
  \/ UpdateSection
  \/ DeleteSection
  \/ Reply

Spec == Init /\ [][Next]_vars

------------------------------------------------------------------------------
\* The claims, on the request last handled (resp) and the stores before (resp.pre)
\* and after (db) it.

\* The principal a header's token belongs to.
PrincipalOf(header) ==
  CASE header = <<"Bearer ", "tok1">> -> Uid1
    [] header = <<"Bearer ", " ", "tok2", " ">> -> Uid2
    [] OTHER -> <<>>

Caller == PrincipalOf(resp.header)

ReminderOps == {"list_reminders", "create_reminder", "update_reminder", "delete_reminder"}
UpdateOps == {"update_reminder", "update_section"}
DeleteOps == {"delete_reminder", "delete_section"}
CreateOps == {"create_reminder", "create_section"}

\* The collection the request is about.
Col == IF resp.op \in ReminderOps THEN "recordatorios" ELSE "secciones"

\* The request is an Update or Delete by a verified principal.
ChangeByUser == resp.op \in UpdateOps \cup DeleteOps /\ resp.header \in UserHeaders

\* C1: an Update or a Delete by a principal on an existing document whose
\* owner is another principal answers 403 and leaves every document of the
\* store as it was.
C1_ForeignChangeForbidden ==
  (/\ ChangeByUser
   /\ resp.rid \in DOMAIN resp.pre[Col]
   /\ resp.pre[Col][resp.rid]["id_usuario"] # JStr(Caller))
  => (resp.status = 403 /\ db = resp.pre)

C1_Witness ==
  /\ resp.op = "update_reminder"
  /\ resp.header \in UserHeaders
  /\ resp.rid \in DOMAIN resp.pre["recordatorios"]
  /\ resp.pre["recordatorios"][resp.rid]["id_usuario"] # JStr(Caller)
  /\ resp.status = 403

\* C3: every stored document's id_usuario is the principal that created it,
\* and a successful Update whose body holds id_usuario and nombre changes
\* nombre of that document and nothing else in the store.
C3_OwnerFixedAtCreate ==
  /\ \A c \in Collections : \A i \in DOMAIN db[c] :
       /\ i \in DOMAIN origin
       /\ origin[i].uid \in {Uid1, Uid2}
       /\ db[c][i]["id_usuario"] = JStr(origin[i].uid)
  /\ (/\ resp.op \in UpdateOps
      /\ resp.status = 200
      /\ {"id_usuario", "nombre"} \subseteq DOMAIN resp.body)
     => /\ DOMAIN db[Col] = DOMAIN resp.pre[Col]
        /\ \A c \in Collections : \A i \in DOMAIN db[c] : \A k \in DOMAIN db[c][i] :
             IF c = Col /\ i = resp.rid /\ k = "nombre"
             THEN db[c][i][k] = resp.body["nombre"]
             ELSE k \in DOMAIN resp.pre[c][i] /\ db[c][i][k] = resp.pre[c][i][k]

C3_Witness ==
  /\ resp.op = "update_reminder"
  /\ resp.status = 200
  /\ "id_usuario" \in DOMAIN resp.body
  /\ resp.body["id_usuario"] # db["recordatorios"][resp.rid]["id_usuario"]
  /\ db["recordatorios"][resp.rid]["nombre"] # resp.pre["recordatorios"][resp.rid]["nombre"]

\* C4: an Update or a Delete by a verified principal on an id with no
\* document in the collection answers 404 and leaves the store as it was,
\* whoever the caller is and whether the id was never created or was deleted.
C4_MissingIsNotFound ==
  (ChangeByUser /\ resp.rid \notin DOMAIN resp.pre[Col])
  => (resp.status = 404 /\ db = resp.pre)

\* A second Delete of a section that was deleted, by the user who had not
\* owned it.
C4_Witness ==
  /\ resp.op = "delete_section"
  /\ resp.status = 404
  /\ resp.rid < nextId
  /\ \A c \in Collections : resp.rid \notin DOMAIN db[c]
  /\ \E i \in DOMAIN db["secciones"] : db["secciones"][i]["id_usuario"] = JStr(Caller)

\* C6: a request with no verified principal (no header, another scheme, a
\* rejected token) answers 401 with no store call made and the store as it
\* was.
C6_UnauthenticatedTouchesNothing ==
  (resp.op # "idle" /\ resp.header \in BadHeaders)
  => (resp.status = 401 /\ resp.calls = <<>> /\ resp.out = <<>> /\ db = resp.pre)

C6_Witness ==
  /\ resp.op = "delete_section"
  /\ resp.header = <<"Bearer ", "expired">>
  /\ resp.rid \in DOMAIN db["secciones"]
  /\ resp.status = 401

\* The ids of the caller's documents in collection c before the request.
OwnIds(c) ==
  {i \in DOMAIN resp.pre[c] : resp.pre[c][i]["id_usuario"] = JStr(Caller)}

\* The response body holds exactly the documents ids of collection c, each
\* once, with its fields as stored and its id.
OutIs(ids, c) ==
  /\ Len(resp.out) = Cardinality(ids)
  /\ \A i \in ids : \E j \in DOMAIN resp.out :
       /\ DOMAIN resp.out[j] = DOMAIN resp.pre[c][i] \cup {"id"}
       /\ resp.out[j]["id"] = DocId(i)
       /\ \A k \in DOMAIN resp.pre[c][i] : resp.out[j][k] = resp.pre[c][i][k]

ListByUser == resp.op \in {"list_reminders", "list_sections"} /\ resp.header \in UserHeaders

\* C2 as claimed: a List by a principal answers with exactly the principal's
\* documents of the collection, for reminders those whose tipo equals the
\* tipo of the query when the query has one.
C2_ListExactlyOwn ==
  ListByUser
  => /\ resp.status = 200
     /\ OutIs(IF resp.op = "list_reminders" /\ resp.tipo # JNull
              THEN {i \in OwnIds(Col) : resp.pre[Col][i]["tipo"] = resp.tipo}
              ELSE OwnIds(Col), Col)

\* C2 as amended: List Reminders answers with exactly the caller's reminders,
\* those whose tipo equals the query's tipo when that is not empty (an empty
\* tipo filters nothing); List Sections answers with exactly the caller's
\* sections, or with 500 when the name of one of them is not a string.
C2_ListOwnNonEmptyTipo ==
  /\ (ListByUser /\ resp.op = "list_reminders")
     => /\ resp.status = 200
        /\ OutIs(IF resp.tipo.t = "str" /\ resp.tipo.s # <<>>
                 THEN {i \in OwnIds(Col) : resp.pre[Col][i]["tipo"] = resp.tipo}
                 ELSE OwnIds(Col), Col)
  /\ (ListByUser /\ resp.op = "list_sections")
     => IF \E i \in OwnIds(Col) : resp.pre[Col][i]["nombre"].t # "str"
        THEN resp.status = 500 /\ resp.out = <<>>
        ELSE resp.status = 200 /\ OutIs(OwnIds(Col), Col)
  /\ ListByUser => db = resp.pre

\* A query narrowed by tipo that leaves out one of the caller's reminders.
C2_Witness ==
  /\ resp.op = "list_reminders"
  /\ resp.header \in UserHeaders
  /\ resp.tipo = Trabajo
  /\ resp.status = 200
  /\ Len(resp.out) = 1
  /\ Cardinality(OwnIds("recordatorios")) = 2

\* The fields Create requires.
RequiredKeys == IF resp.op = "create_reminder" THEN {"nombre", "fecha", "hora"} ELSE {"nombre"}

\* Missing, null, or empty after trimming.
IsBlank(body, k) ==
  \/ k \notin DOMAIN body
  \/ body[k].t = "null"
  \/ body[k].t = "str" /\ strip(body[k].s) = <<>>

\* C5: a Create by a verified principal with a required field missing, null or
\* blank answers 400 and writes nothing.
C5_BlankRequiredRejected ==
  (/\ resp.op \in CreateOps
   /\ resp.header \in UserHeaders
   /\ \E k \in RequiredKeys : IsBlank(resp.body, k))
  => (resp.status = 400 /\ db = resp.pre)

\* The keys an Update may change, per collection.
PatchableKeys(c) ==
  IF c = "recordatorios"
  THEN {"nombre", "descripcion", "fecha", "hora", "estado", "prioridad",
        "notificacion", "repeticion", "tipo", "color", "fecha_creacion",
        "dias_repeticion", "fechas_completadas", "estados_fechas", "archivos"}
  ELSE {"nombre", "color"}

\* C7: an Update by the owner answers with success, sets exactly the patchable
\* keys of the body to the body's values and leaves everything else as it
\* was, also when the body holds no patchable key.
C7_OwnerUpdateSucceeds ==
  (/\ resp.op \in UpdateOps
   /\ resp.header \in UserHeaders
   /\ resp.rid \in OwnIds(Col))
  => /\ resp.status = 200
     /\ DOMAIN db[Col] = DOMAIN resp.pre[Col]
     /\ \A c \in Collections : \A i \in DOMAIN db[c] : \A k \in DOMAIN db[c][i] :
          IF c = Col /\ i = resp.rid /\ k \in DOMAIN resp.body \cap PatchableKeys(c)
          THEN db[c][i][k] = resp.body[k]
          ELSE k \in DOMAIN resp.pre[c][i] /\ db[c][i][k] = resp.pre[c][i][k]

\* C9: List Sections by a verified principal answers 200 with the caller's
\* sections in ascending order of the lower-cased name, a missing name
\* counting as the empty string.
C9_SectionsListedSorted ==
  (resp.op = "list_sections" /\ resp.header \in UserHeaders)
  => /\ resp.status = 200
     /\ OutIs(OwnIds("secciones"), "secciones")
     /\ \A a, b \in DOMAIN resp.out :
          a < b => str_le(lower(GetOr(resp.out[a], "nombre", JStr(<<>>)).s),
                          lower(GetOr(resp.out[b], "nombre", JStr(<<>>)).s))

\* The header a principal sends.
HeaderOf(uid) == IF uid = Uid1 THEN <<"Bearer ", "tok1">> ELSE <<"Bearer ", " ", "tok2", " ">>

\* A List by uid of collection c, with no tipo, in the current state.
ListBy(uid, c) ==
  IF c = "recordatorios"
  THEN list_reminders(HeaderOf(uid), JNull, db)
  ELSE list_sections(HeaderOf(uid), db)

\* The declared default of a patchable field.
DefaultOf(c, k) ==
  CASE c = "secciones" /\ k = "color" -> JBigInt(<<"4280391411">>)
    [] c = "recordatorios" /\ k = "estado" -> JBool(FALSE)
    [] c = "recordatorios" /\ k = "prioridad" -> JStr(<<"m", "e", "d", "i", "a">>)
    [] c = "recordatorios" /\ k = "notificacion" -> JBool(TRUE)
    [] c = "recordatorios" /\ k = "repeticion" -> JStr(<<"n", "i", "n", "g", "u", "n", "a">>)
    [] c = "recordatorios" /\ k \in {"dias_repeticion", "fechas_completadas", "archivos"} -> JList(<<>>)
    [] c = "recordatorios" /\ k = "estados_fechas" -> JDict(0)
    [] c = "recordatorios" /\ k = "tipo" -> Personal
    [] c = "recordatorios" /\ k = "color" -> JStr(<<"a", "z", "u", "l">>)
    [] OTHER -> JNull

\* The value of field k as the body gives it, or its default.
AsGiven(c, k, body) == IF k \in DOMAIN body THEN body[k] ELSE DefaultOf(c, k)

\* The value Create stores for field k: the required strings trimmed, estado
\* and notificacion as booleans, a falsy section colour as the default.
AsStored(c, k, body) ==
  CASE k \in {"nombre", "fecha", "hora"} -> JStr(strip(body[k].s))
    [] c = "recordatorios" /\ k \in {"estado", "notificacion"} ->
         JBool(Truthy(AsGiven(c, k, body)))
    [] c = "secciones" /\ k = "color" /\ ~Truthy(AsGiven(c, k, body)) -> DefaultOf(c, k)
    [] OTHER -> AsGiven(c, k, body)

\* The list holds document i with a non-empty id and the expected fields.
Lists(out, c, i, body, Expected(_, _, _)) ==
  \E j \in DOMAIN out :
    /\ out[j]["id"] = DocId(i)
    /\ out[j]["id"].t = "str" /\ out[j]["id"].s # <<>>
    /\ \A k \in PatchableKeys(c) : out[j][k] = Expected(c, k, body)

\* The created documents no Update has written to since.
FreshIds(c) == {i \in DOMAIN db[c] : i \in DOMAIN origin /\ origin[i].fresh}

\* C8 as claimed: a List by the creator holds every document created and not
\* updated or deleted since, equal to the body on the patchable fields it
\* gave and holding the default on the others.
C8_RoundTripAsGiven ==
  \A c \in Collections : \A i \in FreshIds(c) :
    LET r == ListBy(origin[i].uid, c)
    IN r.status = 200 /\ Lists(r.out, c, i, origin[i].body, AsGiven)

\* C8 as amended: the document listed holds the required strings trimmed,
\* estado and notificacion as the booleans of the values given, the default
\* colour for a falsy section colour, every other patchable field as given or
\* its default; List Sections answers 500 instead when the name of one of the
\* caller's sections is not a string.
C8_RoundTripAsStored ==
  \A c \in Collections : \A i \in FreshIds(c) :
    LET r == ListBy(origin[i].uid, c)
    IN IF c = "secciones" /\ \E j \in DOMAIN db[c] :
            db[c][j]["id_usuario"] = JStr(origin[i].uid) /\ db[c][j]["nombre"].t # "str"
       THEN r.status = 500
       ELSE r.status = 200 /\ Lists(r.out, c, i, origin[i].body, AsStored)

\* Two created reminders of one user, one of them with a body that gives
\* tipo and estado, right after the second Create.
C8_Witness ==
  /\ resp.op = "create_reminder"
  /\ resp.status = 201
  /\ "estado" \in DOMAIN resp.body
  /\ Cardinality(FreshIds("recordatorios")) = 2
  /\ \A i \in FreshIds("recordatorios") : origin[i].uid = Caller

------------------------------------------------------------------------------
\* Concurrent requests on reminders: each thread handles one request at a
\* time, one store call per step; th[t].pc is the store call the handler
\* makes next.  origin and resp are not followed here.

Finish(t, status, out) ==
  th' = [th EXCEPT ![t].pc = "done", ![t].status = status, ![t].out = out]

\* create_reminder: its one store call is the add.
ConcCreate ==
  \E header \in UserHeaders, body \in ReminderBodies :
    /\ nextId <= MaxDocs
    /\ db' = create_reminder(header, body, db, nextId).db
    /\ nextId' = nextId + 1
    /\ UNCHANGED <<origin, resp, th>>

\* update_reminder up to snap = ref.get() and the two checks on it
UpdateGet(t) ==
  \E header \in UserHeaders, rid \in Ids, body \in ReminderPatches :
    LET uid == require_firebase_user(header).uid
        req == [IdleThread EXCEPT !.op = "update", !.uid = uid, !.rid = rid, !.body = body]
    IN /\ th[t].pc = "idle"
       /\ th' = [th EXCEPT ![t] =
                   IF ~exists(db, "recordatorios", rid)
                   THEN [req EXCEPT !.pc = "done", !.status = 404]
                   ELSE IF ~owned_by(db["recordatorios"][rid], uid)
                   THEN [req EXCEPT !.pc = "done", !.status = 403]
                   ELSE [req EXCEPT !.pc = "update"]]
       /\ UNCHANGED <<db, nextId, origin, resp>>

\* ref.update(patch): raises on an empty patch and on a document that is gone
UpdateWrite(t) ==
  LET patch == reminder_patch(th[t].body)
  IN /\ th[t].pc = "update"
     /\ IF DOMAIN patch = {} \/ ~exists(db, "recordatorios", th[t].rid)
        THEN Finish(t, 500, <<>>) /\ db' = db
        ELSE /\ th' = [th EXCEPT ![t].pc = "refetch"]
             /\ db' = update(db, "recordatorios", th[t].rid, patch)
     /\ UNCHANGED <<nextId, origin, resp>>

\* updated = ref.get().to_dict(); updated["id"] = rid: to_dict() of a document
\* that is gone is None
UpdateRefetch(t) ==
  /\ th[t].pc = "refetch"
  /\ IF exists(db, "recordatorios", th[t].rid)
     THEN Finish(t, 200, <<with_id(db["recordatorios"][th[t].rid], th[t].rid)>>)
     ELSE Finish(t, 500, <<>>)
  /\ UNCHANGED <<db, nextId, origin, resp>>

\* delete_reminder up to snap = ref.get() and the two checks on it
DeleteGet(t) ==
  \E header \in UserHeaders, rid \in Ids :
    LET uid == require_firebase_user(header).uid
        req == [IdleThread EXCEPT !.op = "delete", !.uid = uid, !.rid = rid]
    IN /\ th[t].pc = "idle"
       /\ th' = [th EXCEPT ![t] =
                   IF ~exists(db, "recordatorios", rid)
                   THEN [req EXCEPT !.pc = "done", !.status = 404]
                   ELSE IF ~owned_by(db["recordatorios"][rid], uid)
                   THEN [req EXCEPT !.pc = "done", !.status = 403]
                   ELSE [req EXCEPT !.pc = "delete"]]
       /\ UNCHANGED <<db, nextId, origin, resp>>

\* ref.delete()
DeleteWrite(t) ==
  /\ th[t].pc = "delete"
  /\ db' = delete(db, "recordatorios", th[t].rid)
  /\ Finish(t, 200, <<>>)
  /\ UNCHANGED <<nextId, origin, resp>>

\* The response is sent; the thread takes the next request.
Return(t) ==
  /\ th[t].pc = "done"
  /\ th' = [th EXCEPT ![t] = IdleThread]
  /\ UNCHANGED <<db, nextId, origin, resp>>

ConcNext ==
  \/ ConcCreate
  \/ \E t \in Threads : UpdateGet(t)
  \/ \E t \in Threads : UpdateWrite(t)
  \/ \E t \in Threads : UpdateRefetch(t)
  \/ \E t \in Threads : DeleteGet(t)
  \/ \E t \in Threads : DeleteWrite(t)
  \/ \E t \in Threads : Return(t)

SpecConc == Init /\ [][ConcNext]_vars

\* C10: a Reminder Update by a verified principal ends with 404, 403, or 200
\* and the whole stored document with the id asked for, whatever other
\* requests run between its store calls.  Stated of the Updates whose body
\* holds a patchable key: one whose body holds none ends with 500 with no
\* other request running (C7).
C10_UpdateOutcome ==
  \A t \in Threads :
    (/\ th[t].pc = "done"
     /\ th[t].op = "update"
     /\ DOMAIN th[t].body \cap PatchableKeys("recordatorios") # {})
    => /\ th[t].status \in {404, 403, 200}
       /\ th[t].status = 200
          => /\ Len(th[t].out) = 1
             /\ DOMAIN th[t].out[1] = ReminderKeys \cup {"id"}
             /\ th[t].out[1]["id"] = DocId(th[t].rid)

====
